---- MODULE Spec2Model ----
(***************************************************************************)
(* Model of osx-photos-export: the album-tree builder (ApePhotos) and the  *)
(* export reconciler (ApeExporter).                                        *)
(*                                                                         *)
(* Spec      : one run of ApeExporter (constructor + export_photos) over   *)
(*             a forest handed to export_photos.                           *)
(* SpecFetch : one call of ApePhotos.fetch_albums; the rows every          *)
(*             cursor.execute yields are inputs drawn at that step.        *)
(*                                                                         *)
(* File names are token sequences <<stem, ext>>, paths are token sequences *)
(* of directory names followed by the file name's tokens, so that the      *)
(* regular expressions of the source (anchored at the start or at the end  *)
(* of the string) can be modelled by what they do.                         *)
(***************************************************************************)
EXTENDS Integers, Sequences, FiniteSets, TLC

VARIABLES
    \* ---- ApeExporter ----
    pc,                     \* position of the run
    update_exif,            \* constructor argument update_exif
    exif_tool,              \* module global exif_tool: "None" or "ExifTool"
    exif_running,           \* exif_tool.running
    self_update_exif,       \* self._update_exif (truthiness)
    originals_subdir_name,  \* self._originals_subdir_name
    album_tree,             \* argument of export_photos
    plan,                   \* the nodes with photos, in the order _export_internal reaches them
    node,                   \* index into plan of the node being exported
    i,                      \* index of the photo of the direct-copy loop
    failed_direct_access,   \* list of the photos not copied directly
    bucket,                 \* which scripted batch of _export_media is running (1..3)
    data_list,              \* argument of the running _run_update_exif
    j,                      \* index into data_list
    temp_directory,         \* files in the staging directory
    out_files,              \* files under the output root
    dirs,                   \* directories created under the output root
    \* ---- observation of the collaborators ----
    copy_attempts,          \* uuids for which shutil.copyfile was called
    script_calls,           \* scripted-export invocations, in order
    exif_calls,             \* exif_tool.execute invocations
    error_log,              \* log.error records of _run_update_exif
    moves,                  \* _move_temp_files steps, in order
    \* ---- ApePhotos.fetch_albums ----
    fpc,                    \* position inside fetch_albums
    root_rows,              \* the rows the root query selects (Z_PK of each)
    root_id,
    album_temp,
    keywords_temp,
    photo_temp,
    error,                  \* the local variable error of the photo-query loop
    used_query,             \* index of the query variant whose rows were fetched (0: none)
    result                  \* the returned forest
exportVars == <<pc, update_exif, exif_tool, exif_running, self_update_exif,
                originals_subdir_name, album_tree, plan, node, i,
                failed_direct_access, bucket, data_list, j, temp_directory,
                out_files, dirs, copy_attempts, script_calls, exif_calls,
                error_log, moves>>
fetchVars == <<fpc, root_rows, root_id, album_temp, keywords_temp, photo_temp, error,
               used_query, result>>
vars == <<exportVars, fetchVars>>

\* Python's None: for text, for album ids/uuids (integers in the model), and as
\* a tagged value for the columns that hold a number or None
None == "None"
NoneId == -1
NoneVal == [t |-> "none", v |-> 0]
Num(x) == [t |-> "num", v |-> x]
\* a column value that is neither NULL nor a number (sqlite keeps text there)
TextVal == [t |-> "text", v |-> 0]
\* coordinates are floats: a number counts units of 1/CoordScale degree
CoordScale == 10000
Deg(d) == Num(d * CoordScale)

(***************************************************************************)
(* Bounds                                                                  *)
(***************************************************************************)
MaxPhotos == 2
MaxChildPhotos == 1

(***************************************************************************)
(* Sequence helpers                                                        *)
(***************************************************************************)
Range(s) == {s[k] : k \in 1..Len(s)}

RECURSIVE Concat(_)
Concat(ss) == IF Len(ss) = 0 THEN <<>> ELSE Head(ss) \o Concat(Tail(ss))

RECURSIVE SelectIdx(_, _, _)
\* the least k in lo..3 with ok[k], or 4
SelectIdx(ok, lo, hi) ==
    IF lo > hi THEN hi + 1
    ELSE IF ok[lo] THEN lo ELSE SelectIdx(ok, lo + 1, hi)

(***************************************************************************)
(* File names and the regular expressions of ape_exporter.py               *)
(***************************************************************************)
\* str.lower() on the extensions that occur (re.IGNORECASE)
Lower(tok) ==
    CASE tok = ".MOV" -> ".mov"
      [] tok = ".MP4" -> ".mp4"
      [] tok = ".JPG" -> ".jpg"
      [] OTHER -> tok

NonEmptyTokens(path) == SelectSeq(path, LAMBDA t : t # "")

\* re_movies.search: the pattern \.(mov|mp4)$ found at the end of the string
re_movies_search(path) ==
    LET t == NonEmptyTokens(path)
    IN  Len(t) >= 1 /\ Lower(t[Len(t)]) \in {".mov", ".mp4"}

\* re_movies.match(filename): the pattern \.(mov|mp4)$ applied at position 0,
\* so the whole string has to be the extension
re_movies_match(path) ==
    LET t == NonEmptyTokens(path)
    IN  Len(t) = 1 /\ Lower(t[1]) \in {".mov", ".mp4"}

\* re_jpeg.sub('.jpeg', name): a trailing .jpg (any case) becomes .jpeg
re_jpeg_sub(path) ==
    IF Len(path) >= 1 /\ Lower(path[Len(path)]) = ".jpg"
    THEN [path EXCEPT ![Len(path)] = ".jpeg"]
    ELSE path

TempDir == <<"tmp">>
TargetRoot == <<"out">>

\* os.path.join(self._temp_directory, photo['originalfilename'])
TempPath(name) == TempDir \o name

\* variant: the expected name is returned unchecked
validate_filename_NoRetry(expected_filename, temp) == expected_filename

\* _validate_filename: os.path.isfile(expected) decides against the staging area
validate_filename(expected_filename, temp) ==
    IF \E f \in temp : TempPath(f.name) = expected_filename
    THEN expected_filename
    ELSE re_jpeg_sub(expected_filename)

(***************************************************************************)
(* Forests handed to export_photos                                         *)
(***************************************************************************)
ExtCycle == <<".jpg", ".MOV", ".png", ".mp4">>
StemOf(k) == <<"p1", "p2", "p3", "p4", "p5", "p6">>[k]
\* the k-th photo of a node: names are distinct within a node
NameOf(k) == <<StemOf(k), ExtCycle[((k - 1) % 4) + 1]>>

\* the metadata of the k-th photo of a node, when it has any: coordinates at
\* odd positions, a keyword at even positions
MetaOf(k) == IF k % 2 = 1 THEN "gps" ELSE "kw"

\* a record as _create_photo_record builds it
PhotoOf(uuid, k, adjusted, live, has_meta) ==
    LET meta == IF has_meta THEN MetaOf(k) ELSE "none" IN
    [id |-> uuid, uuid |-> uuid, directory |-> "0", filename |-> NameOf(k),
     originalfilename |-> NameOf(k),
     adjusted |-> adjusted, live |-> live,
     latitude |-> IF meta = "gps" THEN Deg(10) ELSE NoneVal,
     longitude |-> IF meta = "gps" THEN Deg(20) ELSE NoneVal,
     favourite |-> 0,
     keywords |-> IF meta = "kw" THEN <<"k1">> ELSE <<>>,
     has_exif_data |-> meta # "none"]

PhotoLists(n) ==
    UNION {{[k \in 1..len |-> PhotoOf(k, k, c[k][1], c[k][2], c[k][3])] :
              c \in [1..len -> BOOLEAN \X BOOLEAN \X BOOLEAN]} : len \in 0..n}

\* the photos of the nested album: live photos, which always take the
\* scripted path, so that the staging directory is used before the parent's turn
ChildPhotoLists(n) ==
    {[k \in 1..len |-> PhotoOf(10 + k, k + 1, FALSE, TRUE, FALSE)] : len \in 0..n}

Folder(id, name, photos, children) ==
    [id |-> id, uuid |-> id, name |-> name,
     has_photos |-> photos # <<>>, photos |-> photos,
     has_children |-> children # <<>>, children |-> children]

\* the synthetic node fetch_albums always appends
SharedFolder ==
    [id |-> NoneId, uuid |-> NoneId, name |-> "Shared",
     has_photos |-> FALSE, photos |-> <<>>,
     has_children |-> TRUE, children |-> <<>>]

Forests ==
    {(IF pa = <<>> /\ pb = <<>> THEN <<>>
      ELSE <<Folder(1, "A", pa, IF pb = <<>> THEN <<>> ELSE <<Folder(2, "B", pb, <<>>)>>)>>)
       \o <<SharedFolder>> :
        pa \in PhotoLists(MaxPhotos),
        pb \in ChildPhotoLists(MaxChildPhotos)}

(***************************************************************************)
(* ApeExporter                                                             *)
(***************************************************************************)
RECURSIVE ExportInternalPlan(_, _)
\* the recursion of _export_internal: children first, then the node's own
\* photos when the key 'photos' is present
ExportInternalPlan(target_path, folder) ==
    LET tp == target_path \o <<folder.name>>
    IN  Concat([k \in 1..Len(folder.children) |->
                    ExportInternalPlan(tp, folder.children[k])])
        \o (IF folder.has_photos
            THEN <<[target_path |-> tp, photos |-> folder.photos]>>
            ELSE <<>>)

\* export_photos: for folder in album_tree: self._export_internal(target_path, folder)
ExportPlan(tree) ==
    Concat([k \in 1..Len(tree) |-> ExportInternalPlan(TargetRoot, tree[k])])

Prefixes(path) == {SubSeq(path, 1, k) : k \in 1..Len(path)}

\* os.makedirs(..., exist_ok=True) of _export_internal
MakeDirs(target_path, photos) ==
    IF \E k \in 1..Len(photos) : photos[k].adjusted
    THEN Prefixes(target_path \o <<originals_subdir_name>>)
    ELSE Prefixes(target_path)

\* variant: the live check is missing
SkipsDirectCopy_Never(photo) == FALSE

\* line 82: a live photo is not copied but put on failed_direct_access
SkipsDirectCopy(photo) == photo.live

\* variant: only the files under the names the photos have are moved
ListTemp_OnlyExpected(temp) == {f \in temp : f.name[Len(f.name)] # ".jpeg"}

\* os.listdir(self._temp_directory) of _move_temp_files
ListTemp(temp) == temp

\* variant: the first batch leaves out the photos on failed_direct_access
BucketList_OnlyPlaced(b, photos, failed) ==
    CASE b = 1 -> SelectSeq(photos, LAMBDA p : p.adjusted /\ p \notin Range(failed))
      [] b = 2 -> SelectSeq(failed, LAMBDA p : p.adjusted)
      [] b = 3 -> SelectSeq(failed, LAMBDA p : ~p.adjusted)

\* the three photo lists _export_media exports, in the order it exports them
BucketList(b, photos, failed) ==
    CASE b = 1 -> SelectSeq(photos, LAMBDA p : p.adjusted)
      [] b = 2 -> SelectSeq(failed, LAMBDA p : p.adjusted)
      [] b = 3 -> SelectSeq(failed, LAMBDA p : ~p.adjusted)

\* the next batch _export_media runs, from b on (4: none is left)
NextBucket(b, photos, failed) ==
    SelectIdx([k \in 1..3 |-> BucketList(k, photos, failed) # <<>>], b, 3)

BucketOptions(b) == IF b = 1 THEN "" ELSE "with using originals"
BucketVersion(b) == IF b = 1 THEN "current" ELSE "original"
\* variant: the second batch is moved to the node's directory as well
BucketTarget_NoSubdir(b, target_path) == target_path

BucketTarget(b, target_path) ==
    IF b = 2 THEN target_path \o <<originals_subdir_name>> ELSE target_path

\* the flags _run_update_exif builds for one file
ExifFlags(data) ==
    (IF data.latitude.t # "none" /\ data.longitude.t # "none"
     THEN <<"-EXIF:GPSLatitude", "-EXIF:GPSLatitudeRef",
            "-EXIF:GPSLongitude", "-EXIF:GPSLongitudeRef">>
     ELSE <<>>)
    \o [k \in 1..Len(data.keywords) |-> "-Subject"]

\* whether _run_update_exif reaches exif_tool.execute for this file
ExifInvoked(data) ==
    /\ ~re_movies_match(data.filename)
    /\ ExifFlags(data) # <<>>

\* what exif_tool.execute can do: a status with one of the two recognised
\* substrings, any other status, or a JSONDecodeError
ExifOutcomes == {"updated", "unchanged", "other", "parse_error"}

ExifData(photo, filename) ==
    [latitude |-> photo.latitude, longitude |-> photo.longitude,
     keywords |-> photo.keywords, filename |-> filename]

\* how the file at a staging path got there ("absent": no such file)
StagedVia(filename, temp) ==
    IF \E f \in temp : TempPath(f.name) = filename
    THEN (CHOOSE f \in temp : TempPath(f.name) = filename).via
    ELSE "absent"
StagedUuid(filename, temp) ==
    IF \E f \in temp : TempPath(f.name) = filename
    THEN (CHOOSE f \in temp : TempPath(f.name) = filename).uuid
    ELSE NoneId

\* one iteration of the loop of _run_update_exif: the observed call ...
ExifCallsAfter(data, stage, temp, outcome) ==
    IF ExifInvoked(data)
    THEN exif_calls \cup {[node |-> node, stage |-> stage, filename |-> data.filename,
                           via |-> StagedVia(data.filename, temp),
                           uuid |-> StagedUuid(data.filename, temp),
                           outcome |-> IF outcome \in {"updated", "unchanged"}
                                       THEN "ok" ELSE outcome]}
    ELSE exif_calls
\* ... and its log.error record: ValueError is logged, JSONDecodeError is passed over
ErrorLogAfter(data, stage, outcome) ==
    IF ExifInvoked(data) /\ outcome = "other"
    THEN error_log \cup {[node |-> node, stage |-> stage, filename |-> data.filename]}
    ELSE error_log

\* shutil.copyfile into a directory of the output: an existing file is overwritten
CopyFile(files, dir, name, uuid) ==
    {f \in files : ~(f.dir = dir /\ f.name = name)}
    \cup {[dir |-> dir, name |-> name, uuid |-> uuid, via |-> "direct",
           version |-> "original"]}

StrayFile == [name |-> <<"stray", ".tmp">>, uuid |-> NoneId, via |-> "stray",
              version |-> "original"]

FetchIdle ==
    /\ fpc = "off"
    /\ root_rows = <<>>
    /\ root_id = NoneId
    /\ album_temp = <<>>
    /\ keywords_temp = <<>>
    /\ photo_temp = <<>>
    /\ error = None
    /\ used_query = 0
    /\ result = <<>>

\* the state before ApeExporter(...) is called (apple_photos_export.py, main)
Init ==
    /\ pc = "new"
    /\ update_exif \in BOOLEAN
    /\ exif_tool \in {None, "ExifTool"}
    /\ exif_running = FALSE
    /\ self_update_exif = FALSE
    /\ originals_subdir_name \in {"Originals", ""}
    /\ temp_directory \in {{}, {StrayFile}}
    /\ album_tree = <<>>
    /\ plan = <<>>
    /\ node = 0
    /\ i = 0
    /\ failed_direct_access = <<>>
    /\ bucket = 0
    /\ data_list = <<>>
    /\ j = 0
    /\ out_files = {}
    /\ dirs = {}
    /\ copy_attempts = {}
    /\ script_calls = <<>>
    /\ exif_calls = {}
    /\ error_log = {}
    /\ moves = <<>>
    /\ FetchIdle

\* variant: the helper is looked at before the arguments are checked
ConstructorOutcome_HelperFirst(upd, tool, temp, subdir) ==
    IF upd /\ tool = None THEN "fatal"
    ELSE IF tool = None THEN "crashed"
    ELSE IF temp # {} THEN "fatal"
    ELSE IF subdir = "" THEN "fatal"
    ELSE "constructed"

\* how __init__ ends (lines 47-60): "fatal" is GenericExportError, "crashed"
\* the AttributeError of exif_tool.running when exif_tool is None
ConstructorOutcome(upd, tool, temp, subdir) ==
    IF upd /\ tool = None THEN "fatal"
    ELSE IF temp # {} THEN "fatal"
    ELSE IF subdir = "" THEN "fatal"
    ELSE IF tool = None THEN "crashed"
    ELSE "constructed"

\* ApeExporter.__init__
Construct ==
    /\ pc = "new"
    /\ self_update_exif' = (update_exif /\ exif_tool # None)
    /\ pc' = ConstructorOutcome(update_exif, exif_tool, temp_directory,
                                originals_subdir_name)
    \* lines 56-60: the helper process is started when it is not running
    /\ exif_running' = IF pc' = "constructed" THEN TRUE ELSE exif_running
    /\ UNCHANGED <<update_exif, exif_tool, originals_subdir_name, album_tree, plan,
                   node, i, failed_direct_access, bucket, data_list, j,
                   temp_directory, out_files, dirs, copy_attempts, script_calls,
                   exif_calls, error_log, moves, fetchVars>>

\* export_photos(album_tree, target_path)
ExportPhotos ==
    /\ pc = "constructed"
    /\ \E tree \in Forests :
        /\ album_tree' = tree
        /\ plan' = ExportPlan(tree)
    /\ node' = 1
    /\ pc' = IF plan' = <<>> THEN "done" ELSE "node"
    /\ UNCHANGED <<update_exif, exif_tool, exif_running, self_update_exif,
                   originals_subdir_name, i, failed_direct_access, bucket,
                   data_list, j, temp_directory, out_files, dirs, copy_attempts,
                   script_calls, exif_calls, error_log, moves, fetchVars>>

Photos == plan[node].photos
TargetPath == plan[node].target_path

\* _export_internal, lines 71-79: the output directories of the node
EnterNode ==
    /\ pc = "node"
    /\ dirs' = dirs \cup MakeDirs(TargetPath, Photos)
    /\ failed_direct_access' = <<>>
    /\ i' = 1
    /\ IF Photos # <<>>
       THEN pc' = "copy" /\ UNCHANGED bucket
       ELSE \* an empty 'photos' list: both loops and _export_media do nothing
            pc' = "end" /\ bucket' = 4
    /\ UNCHANGED <<update_exif, exif_tool, exif_running, self_update_exif,
                   originals_subdir_name, album_tree, plan, node, data_list, j,
                   temp_directory, out_files, copy_attempts, script_calls,
                   exif_calls, error_log, moves, fetchVars>>

\* what shutil.copyfile of one photo can do: copy, raise FileNotFoundError
\* (no such source file), or raise another OSError such as PermissionError
CopyOutcomes == {"copied", "not_found", "denied"}

\* the except clause of lines 103-106: which exceptions of the copy are caught
CaughtByCopy(outcome) == outcome = "not_found"

\* where the run goes after the direct-copy loop: the first batch of
\* _export_media that is not empty, or the end of the node
AfterCopyLoop(failed) ==
    /\ bucket' = NextBucket(1, Photos, failed)
    /\ pc' = IF i < Len(Photos) THEN "copy"
             ELSE IF NextBucket(1, Photos, failed) = 4 THEN "end" ELSE "export"

\* one iteration of the loop "for photo in folder['photos']" of _export_internal
DirectCopy ==
    /\ pc = "copy"
    /\ LET photo == Photos[i]
           name == photo.originalfilename
           temp_filename == TempPath(name)
           target_dir == IF photo.adjusted
                         THEN TargetPath \o <<originals_subdir_name>>
                         ELSE TargetPath
           request_exif_update == self_update_exif /\ photo.has_exif_data
           staged == [name |-> name, uuid |-> photo.uuid, via |-> "direct",
                      version |-> "original"]
       IN  IF SkipsDirectCopy(photo)
           THEN /\ failed_direct_access' = Append(failed_direct_access, photo)
                /\ AfterCopyLoop(Append(failed_direct_access, photo))
                /\ UNCHANGED <<copy_attempts, out_files, temp_directory,
                               exif_calls, error_log>>
           ELSE \E copy \in CopyOutcomes, outcome \in ExifOutcomes :
                /\ copy_attempts' = copy_attempts \cup {photo.uuid}
                /\ IF copy # "copied" /\ ~CaughtByCopy(copy)
                   THEN \* the exception leaves _export_internal and export_photos
                        /\ pc' = "aborted_copy"
                        /\ UNCHANGED <<failed_direct_access, bucket, out_files,
                                       temp_directory, exif_calls, error_log>>
                   ELSE IF copy = "not_found"
                           \/ (~request_exif_update /\ target_dir \notin dirs)
                   THEN \* FileNotFoundError
                        /\ failed_direct_access' = Append(failed_direct_access, photo)
                        /\ AfterCopyLoop(Append(failed_direct_access, photo))
                        /\ UNCHANGED <<out_files, temp_directory, exif_calls, error_log>>
                   ELSE /\ UNCHANGED failed_direct_access
                        /\ AfterCopyLoop(failed_direct_access)
                        /\ out_files' = CopyFile(out_files, target_dir, name, photo.uuid)
                        /\ IF request_exif_update
                           THEN LET temp1 == {f \in temp_directory : f.name # name}
                                             \cup {staged}
                                    data == ExifData(photo, temp_filename)
                                IN  /\ exif_calls' = ExifCallsAfter(data, 0, temp1, outcome)
                                    /\ error_log' = ErrorLogAfter(data, 0, outcome)
                                    \* shutil.move(temp_filename, target_filename)
                                    /\ temp_directory' = temp1 \ {staged}
                           ELSE UNCHANGED <<temp_directory, exif_calls, error_log>>
    /\ i' = IF pc' = "aborted_copy" THEN i ELSE i + 1
    /\ UNCHANGED <<update_exif, exif_tool, exif_running, self_update_exif,
                   originals_subdir_name, album_tree, plan, node, data_list, j,
                   dirs, script_calls, moves, fetchVars>>

\* what the scripted exporter names the file of a photo: the original file
\* name, or for a .jpg name the .jpeg one (the quirk _validate_filename is for)
ExportedNames(photo) == {photo.originalfilename, re_jpeg_sub(photo.originalfilename)}

\* _run_export_applescript for the current batch, and the data list
\* _export_media then builds for _run_update_exif
RunExportAppleScript ==
    /\ pc = "export"
    /\ LET photo_list == BucketList(bucket, Photos, failed_direct_access)
           AllNames == UNION {ExportedNames(photo_list[k]) : k \in 1..Len(photo_list)}
       IN  \E names \in [1..Len(photo_list) -> AllNames] :
            /\ \A k \in 1..Len(photo_list) : names[k] \in ExportedNames(photo_list[k])
            /\ LET written == {[name |-> names[k], uuid |-> photo_list[k].uuid,
                                via |-> "scripted", version |-> BucketVersion(bucket)] :
                                    k \in 1..Len(photo_list)}
                   temp1 == {f \in temp_directory :
                                \A w \in written : w.name # f.name} \cup written
                   with_exif == SelectSeq(photo_list, LAMBDA p : p.has_exif_data)
                   datas == [k \in 1..Len(with_exif) |->
                                ExifData(with_exif[k],
                                    validate_filename(TempPath(with_exif[k].originalfilename),
                                                      temp1))]
               IN  /\ temp_directory' = temp1
                   /\ data_list' = datas
                   /\ pc' = IF self_update_exif /\ datas # <<>> THEN "exif" ELSE "move"
            /\ script_calls' = Append(script_calls,
                    [node |-> node,
                     uuid_list |-> [k \in 1..Len(photo_list) |-> photo_list[k].uuid],
                     options |-> BucketOptions(bucket)])
    /\ j' = 1
    /\ UNCHANGED <<update_exif, exif_tool, exif_running, self_update_exif,
                   originals_subdir_name, album_tree, plan, node, i,
                   failed_direct_access, bucket, out_files, dirs, copy_attempts,
                   exif_calls, error_log, moves, fetchVars>>

\* one iteration of the loop of _run_update_exif over the batch's data list
RunUpdateExif ==
    /\ pc = "exif"
    /\ \E outcome \in ExifOutcomes :
        /\ exif_calls' = ExifCallsAfter(data_list[j], bucket, temp_directory, outcome)
        /\ error_log' = ErrorLogAfter(data_list[j], bucket, outcome)
    /\ j' = j + 1
    /\ pc' = IF j < Len(data_list) THEN "exif" ELSE "move"
    /\ UNCHANGED <<update_exif, exif_tool, exif_running, self_update_exif,
                   originals_subdir_name, album_tree, plan, node, i,
                   failed_direct_access, bucket, data_list, temp_directory,
                   out_files, dirs, copy_attempts, script_calls, moves, fetchVars>>

Landed(f, dst) == [dir |-> dst, name |-> f.name, uuid |-> f.uuid, via |-> f.via,
                   version |-> f.version]

\* _move_temp_files(target): every file of the staging directory is moved.
\* shutil.move into a directory raises when the name exists there already,
\* and renames the file to the target itself when the target is no directory.
MoveTempFiles ==
    /\ pc = "move"
    /\ LET dst == BucketTarget(bucket, TargetPath)
           files == ListTemp(temp_directory)
           clash == {f \in files : \E g \in out_files : g.dir = dst /\ g.name = f.name}
       IN  /\ moves' = Append(moves, [node |-> node, bucket |-> bucket, target |-> dst,
                                      files |-> files])
           /\ IF dst \notin dirs /\ files # {}
              THEN \E f \in files :
                    /\ out_files' = out_files \cup
                          {[dir |-> SubSeq(dst, 1, Len(dst) - 1), name |-> <<dst[Len(dst)]>>,
                            uuid |-> f.uuid, via |-> f.via, version |-> f.version]}
                    /\ temp_directory' = temp_directory \ files
                    /\ bucket' = NextBucket(bucket + 1, Photos, failed_direct_access)
                    /\ pc' = IF bucket' = 4 THEN "end" ELSE "export"
              ELSE IF clash # {}
              THEN \E done \in SUBSET (files \ clash) :
                    /\ out_files' = out_files \cup {Landed(f, dst) : f \in done}
                    /\ temp_directory' = temp_directory \ done
                    /\ pc' = "crashed"
                    /\ UNCHANGED bucket
              ELSE /\ out_files' = out_files \cup {Landed(f, dst) : f \in files}
                   /\ temp_directory' = temp_directory \ files
                   /\ bucket' = NextBucket(bucket + 1, Photos, failed_direct_access)
                   /\ pc' = IF bucket' = 4 THEN "end" ELSE "export"
    /\ UNCHANGED <<update_exif, exif_tool, exif_running, self_update_exif,
                   originals_subdir_name, album_tree, plan, node, i,
                   failed_direct_access, data_list, j, dirs, copy_attempts,
                   script_calls, exif_calls, error_log, fetchVars>>

\* _export_internal returns; export_photos takes the next node
FinishNode ==
    /\ pc = "end"
    /\ node' = node + 1
    /\ pc' = IF node < Len(plan) THEN "node" ELSE "done"
    /\ UNCHANGED <<update_exif, exif_tool, exif_running, self_update_exif,
                   originals_subdir_name, album_tree, plan, i,
                   failed_direct_access, bucket, data_list, j, temp_directory,
                   out_files, dirs, copy_attempts, script_calls, exif_calls,
                   error_log, moves, fetchVars>>

Next ==
    \/ Construct
    \/ ExportPhotos
    \/ EnterNode
    \/ DirectCopy
    \/ RunExportAppleScript
    \/ RunUpdateExif
    \/ MoveTempFiles
    \/ FinishNode

Spec == Init /\ [][Next]_vars

TypeOK == pc \in {"new", "fatal", "crashed", "aborted_copy", "constructed", "node", "copy",
                  "export", "exif", "move", "end", "done", "off"}

(***************************************************************************)
(* Properties of the export run                                            *)
(***************************************************************************)
PlanPhotos(n) == {plan[n].photos[k] : k \in 1..Len(plan[n].photos)}
AllPhotos == UNION {PlanPhotos(n) : n \in 1..Len(plan)}
PhotoByUuid(u) == CHOOSE p \in AllPhotos : p.uuid = u

\* _export_internal has returned for the n-th node of the plan
NodeFinished(n) ==
    /\ n \in 1..Len(plan)
    /\ \/ pc = "done"
       \/ n < node
       \/ n = node /\ pc = "end"

OriginalsOf(n) == plan[n].target_path \o <<originals_subdir_name>>
\* the output files of a photo of the n-th node
FilesOf(n, p) == {f \in out_files : f.uuid = p.uuid
                    /\ f.dir \in {plan[n].target_path, OriginalsOf(n)}}
DirectlyCopied(p) == \E f \in out_files : f.uuid = p.uuid /\ f.via = "direct"
DirectFailed(p) == p.live \/ ~DirectlyCopied(p)

\* the layout of C2 for one photo, with the file names it admits
LayoutOK(n, p, Admitted(_)) ==
    IF p.adjusted
    THEN /\ Cardinality(FilesOf(n, p)) = 2
         /\ \E f \in FilesOf(n, p) :
                f.dir = OriginalsOf(n) /\ f.version = "original"
                /\ f.name \in Admitted(f)
         /\ \E f \in FilesOf(n, p) :
                f.dir = plan[n].target_path /\ f.version = "current"
                /\ f.name \in Admitted(f)
    ELSE /\ Cardinality(FilesOf(n, p)) = 1
         /\ \A f \in FilesOf(n, p) :
                f.dir = plan[n].target_path /\ f.name \in Admitted(f)

\* reading of C2 as stated: every file carries the original file name
ExactName(f) == {PhotoByUuid(f.uuid).originalfilename}
\* a file the scripted exporter wrote may carry the .jpeg form of a .jpg name
ExactOrJpeg(f) ==
    IF f.via = "scripted" THEN ExportedNames(PhotoByUuid(f.uuid))
    ELSE {PhotoByUuid(f.uuid).originalfilename}

\* a failure of the direct copy has not ended the run: after construction the
\* run is never in the crashed state
NoAbortAfterConstruction == (pc = "crashed" => node = 0)

\* C2 (as stated): once a node is exported, an unadjusted photo has exactly one
\* output file, <node dir>/<originalFilename>, an adjusted one exactly two, the
\* original in <node dir>/<Originals>/<originalFilename> and the edited version
\* at <node dir>/<originalFilename>; a missing source file never aborts the run.
C2_Original ==
    /\ \A n \in 1..Len(plan) : NodeFinished(n) =>
            \A p \in PlanPhotos(n) : LayoutOK(n, p, ExactName)
    /\ NoAbortAfterConstruction

\* C2 (amended): the same counts and directories; a file written by the
\* scripted exporter is named <originalFilename> or, for a .jpg name, its
\* .jpeg form; a directly copied file is named <originalFilename>.
C2_Layout ==
    /\ \A n \in 1..Len(plan) : NodeFinished(n) =>
            \A p \in PlanPhotos(n) : LayoutOK(n, p, ExactOrJpeg)
    /\ NoAbortAfterConstruction

\* a finished node with an adjusted photo whose source file was missing, an
\* adjusted photo copied directly and an unadjusted live photo
C2_Witness ==
    \E n \in 1..Len(plan) :
        /\ NodeFinished(n)
        /\ \E p \in PlanPhotos(n) : p.adjusted /\ ~p.live /\ p.uuid \in copy_attempts
                                    /\ ~DirectlyCopied(p)
        /\ \E p \in PlanPhotos(n) : (p.adjusted /\ DirectlyCopied(p)) \/ (~p.adjusted /\ p.live)

\* C3: no direct copy is ever attempted for a live photo, and once its node
\* is exported the photo has been part of a scripted-export invocation of
\* that node.
C3_LiveNeverCopied ==
    /\ \A p \in AllPhotos : p.live => p.uuid \notin copy_attempts
    /\ \A n \in 1..Len(plan) : NodeFinished(n) =>
            \A p \in PlanPhotos(n) : p.live =>
                \E c \in 1..Len(script_calls) :
                    /\ script_calls[c].node = n
                    /\ p.uuid \in Range(script_calls[c].uuid_list)

C3_Witness ==
    \E n \in 1..Len(plan) :
        /\ NodeFinished(n)
        /\ \E p, q \in PlanPhotos(n) : p.live /\ p.adjusted /\ q.live /\ ~q.adjusted

\* the scripted-export invocations of the n-th node, and their moves
NodeCalls(n) == SelectSeq(script_calls, LAMBDA c : c.node = n)
NodeMoves(n) == SelectSeq(moves, LAMBDA m : m.node = n)

\* the buckets of C4 as stated, from the photos and from what happened to them
StatedBucket(b, n) ==
    CASE b = 1 -> SelectSeq(plan[n].photos,
                        LAMBDA p : p.adjusted /\ DirectlyCopied(p) /\ ~p.live)
      [] b = 2 -> SelectSeq(plan[n].photos, LAMBDA p : p.adjusted /\ DirectFailed(p))
      [] b = 3 -> SelectSeq(plan[n].photos, LAMBDA p : ~p.adjusted /\ DirectFailed(p))
\* the first bucket holds every adjusted photo of the node
AmendedBucket(b, n) ==
    IF b = 1 THEN SelectSeq(plan[n].photos, LAMBDA p : p.adjusted)
    ELSE StatedBucket(b, n)

Uuids(photos) == [k \in 1..Len(photos) |-> photos[k].uuid]
ExpectedCall(b, n, B(_, _)) ==
    IF B(b, n) = <<>> THEN <<>>
    ELSE <<[node |-> n, uuid_list |-> Uuids(B(b, n)),
            options |-> IF b = 1 THEN "" ELSE "with using originals"]>>
ExpectedTarget(b, n, B(_, _)) ==
    IF B(b, n) = <<>> THEN <<>>
    ELSE <<IF b = 2 THEN OriginalsOf(n) ELSE plan[n].target_path>>

InvocationsMatch(n, B(_, _)) ==
    /\ NodeCalls(n) = ExpectedCall(1, n, B) \o ExpectedCall(2, n, B) \o ExpectedCall(3, n, B)
    /\ [k \in 1..Len(NodeMoves(n)) |-> NodeMoves(n)[k].target]
         = ExpectedTarget(1, n, B) \o ExpectedTarget(2, n, B) \o ExpectedTarget(3, n, B)

\* C4 (as stated): the invocations of a node are one per non-empty bucket,
\* the first bucket being the adjusted, non-live photos whose original was
\* copied directly.
C4_Original == \A n \in 1..Len(plan) : NodeFinished(n) => InvocationsMatch(n, StatedBucket)

\* C4 (amended): the invocations of a node are one per non-empty bucket, in
\* the order (1) every adjusted photo of the node, exported without originals
\* into the node's directory, (2) the adjusted photos that failed direct access
\* or are live, with originals into the Originals subdirectory, (3) the
\* unadjusted photos that failed direct access or are live, with originals
\* into the node's directory; an empty bucket triggers no invocation.
C4_Buckets == \A n \in 1..Len(plan) : NodeFinished(n) => InvocationsMatch(n, AmendedBucket)

\* a finished node with two adjusted photos in one batch, one of them not
\* copied directly, and a finished node without any invocation
C4_Witness ==
    /\ \E n \in 1..Len(plan) :
        /\ NodeFinished(n)
        /\ Len(AmendedBucket(1, n)) = 2
        /\ Len(AmendedBucket(2, n)) = 1
        /\ Len(NodeCalls(n)) = 2
    /\ pc = "done"

C9_NoMovies == \A c \in exif_calls : ~re_movies_search(c.filename)

\* C10: every failed metadata update (unrecognised status or unparsable
\* response) leaves an error record for its file, and does not abort the run.
C10_FailuresLogged ==
    /\ \A c \in exif_calls : c.outcome # "ok" =>
            \E e \in error_log :
                e.node = c.node /\ e.stage = c.stage /\ e.filename = c.filename
    /\ NoAbortAfterConstruction

(***************************************************************************)
(* ApePhotos: rows, _create_photo_record, _parse_tree                      *)
(***************************************************************************)
MaxAlbums == 2
MaxPhotoRows == 2

\* Z_PK of the row that carries the root marker, and of a second such row
RootPK == 0
OtherRootPK == 9
\* ZKIND of a shared album (line 300), and of an ordinary album
SharedKind == 1505
AlbumKind == 2

\* album titles in str order: "A" < "B" < "Shared"
TitleOrder == <<"A", "B", "Shared">>
NameRank(name) == CHOOSE r \in 1..Len(TitleOrder) : TitleOrder[r] = name
NameLess(a, b) == NameRank(a) < NameRank(b)

\* rows of "SELECT Z_PK, ZPARENTFOLDER, ZUUID, ZTITLE, ZKIND FROM ZGENERICALBUM ..."
\* ZPARENTFOLDER is the root, any album, or NULL. Z_PK is the primary key:
\* the position of the row, or for at most one row the key of the root row
\* (the root row itself is selected when it has a title)
PrimaryKeys(n) ==
    {pk \in [1..n -> 0..n] :
        /\ \A k \in 1..n : pk[k] \in {k, RootPK}
        /\ \A k, m \in 1..n : (pk[k] = pk[m]) => (k = m)}
AlbumRow(pk, parent, title, kind) ==
    [Z_PK |-> pk, ZPARENTFOLDER |-> parent, ZUUID |-> 100 + pk,
     ZTITLE |-> title, ZKIND |-> kind]
AlbumRowSeqs ==
    UNION {{[k \in 1..n |-> AlbumRow(pk[k], c[k][1], c[k][2], c[k][3])] :
              pk \in PrimaryKeys(n),
              c \in [1..n -> ({RootPK, NoneId} \cup 1..n) \X {"A", "B"}
                               \X {AlbumKind, SharedKind}]} : n \in 0..MaxAlbums}

\* rows of "SELECT Z_PK, ZTITLE FROM ZKEYWORD"
KeywordRowSeqs == {<<>>, <<<<1, "k1">>, <<2, "k2">>>>}

\* the twelve columns of the photo query, in the order of QUERY_VERSIONS;
\* group_concat is NULL or the list of the ids between the commas
PhotoRow(album, pk, adjusted, live, lat, long, kwids) ==
    [ALBUM |-> album, Z_PK |-> pk, ZDIRECTORY |-> "0", ZFILENAME |-> NameOf(pk),
     ZUUID |-> 200 + pk, ZORIGINALFILENAME |-> NameOf(pk),
     ZHASADJUSTMENTS |-> adjusted, ZVIDEOCPDISPLAYVALUE |-> live,
     ZLATITUDE |-> lat, ZLONGITUDE |-> long, ZFAVORITE |-> 0,
     KEYWORDS |-> kwids]
NoKeywords == [t |-> "none", ids |-> <<>>]
KeywordIds(ids) == [t |-> "str", ids |-> ids]
\* the photo of one row: plain, or adjusted with coordinates and keyword ids
\* one of which has no ZKEYWORD row
PhotoRowKinds(album, pk) ==
    {PhotoRow(album, pk, 0, 0, NoneVal, NoneVal, NoKeywords),
     PhotoRow(album, pk, 1, 0, Deg(50), Deg(14), KeywordIds(<<1, 7>>))}
PhotoRowSeqs ==
    UNION {{r \in [1..n -> UNION {PhotoRowKinds(a, k) : a \in 1..MaxAlbums, k \in 1..n}] :
              \A k \in 1..n : r[k].Z_PK = k} : n \in 0..MaxPhotoRows}

\* keywords_map = {i:j for i,j in keywords_temp}; .get(id, None)
KeywordsGet(keywords_rows, id) ==
    LET hits == {k \in 1..Len(keywords_rows) : keywords_rows[k][1] = id}
    IN  IF hits = {} THEN None
        ELSE keywords_rows[CHOOSE k \in hits : \A h \in hits : h <= k][2]

\* variant: the longitude range is the whole circle
GpsValid_FullCircle(latitude, longitude) ==
    /\ latitude.t = "num" /\ longitude.t = "num"
    /\ -90 * CoordScale <= latitude.v /\ latitude.v <= 90 * CoordScale
    /\ -180 * CoordScale <= longitude.v /\ longitude.v <= 180 * CoordScale

\* line 165
GpsValid(latitude, longitude) ==
    /\ latitude.t = "num" /\ longitude.t = "num"
    /\ -90 * CoordScale <= latitude.v /\ latitude.v <= 90 * CoordScale
    /\ -180 * CoordScale <= longitude.v /\ longitude.v <= 80 * CoordScale

\* line 168: the ids of the column, looked up, without the misses and the
\* empty titles
KeywordsList(column, keywords_rows) ==
    LET ids == IF column.t = "none" THEN <<>> ELSE column.ids
        looked == [k \in 1..Len(ids) |-> KeywordsGet(keywords_rows, ids[k])]
    IN  SelectSeq(looked, LAMBDA kw : kw # None /\ kw # "")

\* _create_photo_record(photo, keywords_map)
create_photo_record(photo, keywords_rows) ==
    LET gps_valid == GpsValid(photo.ZLATITUDE, photo.ZLONGITUDE)
        keywords_list == KeywordsList(photo.KEYWORDS, keywords_rows)
    IN  [id |-> photo.Z_PK, uuid |-> photo.ZUUID, directory |-> photo.ZDIRECTORY,
         filename |-> photo.ZFILENAME, originalfilename |-> photo.ZORIGINALFILENAME,
         adjusted |-> photo.ZHASADJUSTMENTS # 0,
         live |-> photo.ZVIDEOCPDISPLAYVALUE > 0,
         latitude |-> IF gps_valid THEN photo.ZLATITUDE ELSE NoneVal,
         longitude |-> IF gps_valid THEN photo.ZLONGITUDE ELSE NoneVal,
         favourite |-> photo.ZFAVORITE,
         keywords |-> keywords_list,
         has_exif_data |-> (keywords_list # <<>>) \/ gps_valid]

\* the photo records of one album, in row order
AlbumPhotos(album_pk, photo_rows, keywords_rows) ==
    LET mine == SelectSeq(photo_rows, LAMBDA r : r.ALBUM = album_pk)
    IN  [k \in 1..Len(mine) |-> create_photo_record(mine[k], keywords_rows)]

RECURSIVE InsertByName(_, _)
\* insertion behind the items that are not greater: sorted() is stable
InsertByName(sorted, item) ==
    IF sorted = <<>> THEN <<item>>
    ELSE IF NameLess(item.name, Head(sorted).name) THEN <<item>> \o sorted
    ELSE <<Head(sorted)>> \o InsertByName(Tail(sorted), item)

RECURSIVE SortedByName(_)
\* sorted(items, key=lambda child: child['name'])
SortedByName(items) ==
    IF items = <<>> THEN <<>>
    ELSE InsertByName(SortedByName(SubSeq(items, 1, Len(items) - 1)), items[Len(items)])

RECURSIVE parse_tree(_, _, _, _, _)
\* _parse_tree(parent_id, album_temp, photo_temp, keywords_temp); depth counts
\* the frames left, a recursion that uses them up is Python's RecursionError
parse_tree(parent_id, albums, photo_rows, keywords_rows, depth) ==
    IF depth = 0 THEN [ok |-> FALSE, items |-> <<>>]
    ELSE
    LET rows == SelectSeq(albums, LAMBDA r : r.ZPARENTFOLDER = parent_id)
        sub == [k \in 1..Len(rows) |->
                    parse_tree(rows[k].Z_PK, albums, photo_rows, keywords_rows, depth - 1)]
        child(k) ==
            LET photos == AlbumPhotos(rows[k].Z_PK, photo_rows, keywords_rows)
            IN  [id |-> rows[k].Z_PK, uuid |-> rows[k].ZUUID, name |-> rows[k].ZTITLE,
                 has_photos |-> photos # <<>>, photos |-> photos,
                 has_children |-> sub[k].items # <<>>, children |-> sub[k].items]
        kept == SelectSeq([k \in 1..Len(rows) |-> child(k)],
                          LAMBDA c : c.photos # <<>> \/ c.children # <<>>)
    IN  [ok |-> \A k \in 1..Len(rows) : sub[k].ok,
         items |-> SortedByName(kept)]

\* lines 297-306: one node per shared album, in row order, built with the
\* default keywords_map={}
SharedAlbums(albums, photo_rows) ==
    LET rows == SelectSeq(albums, LAMBDA r : r.ZKIND = SharedKind)
    IN  [k \in 1..Len(rows) |->
            [id |-> rows[k].Z_PK, uuid |-> rows[k].ZUUID, name |-> rows[k].ZTITLE,
             has_photos |-> TRUE,
             photos |-> AlbumPhotos(rows[k].Z_PK, photo_rows, <<>>),
             has_children |-> FALSE, children |-> <<>>]]

\* lines 288-308: the forest fetch_albums returns
BuildForest(tree, albums, photo_rows) ==
    tree \o <<[id |-> NoneId, uuid |-> NoneId, name |-> "Shared",
               has_photos |-> FALSE, photos |-> <<>>,
               has_children |-> TRUE, children |-> SharedAlbums(albums, photo_rows)]>>

(***************************************************************************)
(* ApePhotos.fetch_albums                                                  *)
(***************************************************************************)
\* len(ApePhotos.QUERY_VERSIONS)
NumQueryVersions == 4

\* what "SELECT Z_PK ... WHERE ZCLOUDGUID = '----Root-Folder----' ..." yields
RootRowChoices == {<<>>, <<RootPK>>, <<RootPK, OtherRootPK>>}

ExportIdle ==
    /\ pc = "off"
    /\ update_exif = FALSE
    /\ exif_tool = "ExifTool"
    /\ exif_running = FALSE
    /\ self_update_exif = FALSE
    /\ originals_subdir_name = "Originals"
    /\ temp_directory = {}
    /\ album_tree = <<>>
    /\ plan = <<>>
    /\ node = 0
    /\ i = 0
    /\ failed_direct_access = <<>>
    /\ bucket = 0
    /\ data_list = <<>>
    /\ j = 0
    /\ out_files = {}
    /\ dirs = {}
    /\ copy_attempts = {}
    /\ script_calls = <<>>
    /\ exif_calls = {}
    /\ error_log = {}
    /\ moves = <<>>

\* the state when fetch_albums is entered
InitFetch ==
    /\ fpc = "start"
    /\ root_rows = <<>>
    /\ root_id = NoneId
    /\ album_temp = <<>>
    /\ keywords_temp = <<>>
    /\ photo_temp = <<>>
    /\ error = None
    /\ used_query = 0
    /\ result = <<>>
    /\ ExportIdle

\* lines 251-257: cursor.fetchone() of the root query (the duplicate report
\* of lines 226-247 before it only writes warnings)
FetchRoot ==
    /\ fpc = "start"
    /\ \E rows \in RootRowChoices :
        /\ root_rows' = rows
        /\ IF rows = <<>>
           THEN fpc' = "fatal" /\ UNCHANGED root_id
           ELSE fpc' = "albums" /\ root_id' = rows[1]
    /\ UNCHANGED <<album_temp, keywords_temp, photo_temp, error, used_query, result,
                   exportVars>>

\* lines 260-261
FetchAlbumRows ==
    /\ fpc = "albums"
    /\ album_temp' \in AlbumRowSeqs
    /\ fpc' = "keywords"
    /\ UNCHANGED <<root_rows, root_id, keywords_temp, photo_temp, error, used_query, result,
                   exportVars>>

\* lines 265-266
FetchKeywords ==
    /\ fpc = "keywords"
    /\ keywords_temp' \in KeywordRowSeqs
    /\ fpc' = "photos"
    /\ UNCHANGED <<root_rows, root_id, album_temp, photo_temp, error, used_query, result,
                   exportVars>>

\* the loop of lines 275-281 over QUERY_VERSIONS, fails[k] telling whether
\* variant k raises sqlite3.OperationalError: the variant whose rows are
\* fetched (0: none) and the value of error after the loop
QueryLoop(fails) ==
    LET used == SelectIdx([k \in 1..NumQueryVersions |-> ~fails[k]], 1, NumQueryVersions)
    IN  [used |-> IF used > NumQueryVersions THEN 0 ELSE used,
         error |-> IF \E k \in 1..NumQueryVersions : fails[k] /\ k < used
                   THEN "OperationalError" ELSE None]

\* lines 274-284
FetchPhotoRows ==
    /\ fpc = "photos"
    /\ \E fails \in [1..NumQueryVersions -> BOOLEAN], rows \in PhotoRowSeqs :
        LET loop == QueryLoop(fails)
        IN  /\ used_query' = loop.used
            /\ error' = loop.error
            /\ photo_temp' = IF loop.used = 0 THEN <<>> ELSE rows
            /\ fpc' = IF loop.error # None THEN "raised_query" ELSE "parse"
    /\ UNCHANGED <<root_rows, root_id, album_temp, keywords_temp, result, exportVars>>

\* lines 286-308
ParseAndReturn ==
    /\ fpc = "parse"
    /\ LET x == parse_tree(root_id, album_temp, photo_temp, keywords_temp,
                           Len(album_temp) + 1)
       IN  IF x.ok
           THEN /\ result' = BuildForest(x.items, album_temp, photo_temp)
                /\ fpc' = "returned"
           ELSE /\ fpc' = "raised_recursion"
                /\ UNCHANGED result
    /\ UNCHANGED <<root_rows, root_id, album_temp, keywords_temp, photo_temp, error, used_query,
                   exportVars>>

NextFetch ==
    \/ FetchRoot
    \/ FetchAlbumRows
    \/ FetchKeywords
    \/ FetchPhotoRows
    \/ ParseAndReturn

SpecFetch == InitFetch /\ [][NextFetch]_vars

(***************************************************************************)
(* ApePhotos._create_photo_record on one row                               *)
(***************************************************************************)
\* ZLATITUDE and ZLONGITUDE of the row: NULL, text, and the numbers at and
\* next to the limits of line 165 (one unit is 0.0001 degree)
LatitudeValues ==
    {NoneVal, TextVal, Num(-90 * CoordScale - 1), Deg(-90), Deg(0), Deg(90),
     Num(90 * CoordScale + 1)}
LongitudeValues ==
    {NoneVal, TextVal, Num(-180 * CoordScale - 1), Deg(-180), Deg(80),
     Num(80 * CoordScale + 1), Deg(180)}
KeywordColumns == {NoKeywords, KeywordIds(<<2, 7, 1>>)}

\* the state when _create_photo_record(photo, keywords_map) is called
InitRecord ==
    /\ fpc = "record"
    /\ root_rows = <<>>
    /\ root_id = NoneId
    /\ album_temp = <<>>
    /\ keywords_temp \in KeywordRowSeqs
    /\ \E lat \in LatitudeValues, long \in LongitudeValues, kw \in KeywordColumns :
            photo_temp = <<PhotoRow(1, 1, 0, 0, lat, long, kw)>>
    /\ error = None
    /\ used_query = 0
    /\ result = <<>>
    /\ ExportIdle

\* lines 162-184
CreatePhotoRecord ==
    /\ fpc = "record"
    /\ result' = <<create_photo_record(photo_temp[1], keywords_temp)>>
    /\ fpc' = "record_made"
    /\ UNCHANGED <<root_rows, root_id, album_temp, keywords_temp, photo_temp, error,
                   used_query, exportVars>>

NextRecord == CreatePhotoRecord

SpecRecord == InitRecord /\ [][NextRecord]_vars

(***************************************************************************)
(* Properties of fetch_albums                                              *)
(***************************************************************************)
RECURSIVE NodesUnder(_)
\* the nodes of a sibling list and all their descendants
NodesUnder(items) ==
    {items[k] : k \in 1..Len(items)}
    \cup UNION {NodesUnder(items[k].children) : k \in 1..Len(items)}

\* the node holds a photo, or a node below it does
HasPhotoBelow(nd) == \E d \in NodesUnder(<<nd>>) : d.photos # <<>>

NonDecreasing(items) ==
    \A k \in 1..(Len(items) - 1) : ~NameLess(items[k + 1].name, items[k].name)

\* C1: the photo-query loop is left without an exception whenever some
\* variant executes, whichever position the first such variant has; the
\* query only makes fetch_albums raise when every variant fails.
C1_FirstWorkingVariant ==
    /\ fpc = "raised_query" => used_query = 0
    /\ used_query # 0 => fpc \in {"parse", "returned", "raised_recursion"}

\* C6: every node of the returned forest, the node 'Shared' and its children
\* included, holds a photo or has a descendant that does; an empty library
\* gives the empty forest.
C6_NoEmptyNodes ==
    fpc = "returned" =>
        /\ \A nd \in NodesUnder(result) : HasPhotoBelow(nd)
        /\ (album_temp = <<>> /\ photo_temp = <<>>) => result = <<>>

\* C7: in the returned forest the children of every node, those of 'Shared'
\* included, are in non-decreasing order of name, so are the roots before
\* 'Shared', and 'Shared' is the last root.
C7_SiblingsSorted ==
    fpc = "returned" =>
        /\ \A nd \in NodesUnder(result) : NonDecreasing(nd.children)
        /\ result # <<>>
        /\ result[Len(result)].name = "Shared" /\ result[Len(result)].id = NoneId
        /\ NonDecreasing(SubSeq(result, 1, Len(result) - 1))

(***************************************************************************)
(* Further properties of the export run                                    *)
(***************************************************************************)
\* C11: whatever exception the direct copy of one photo raises, it is caught:
\* the run is never ended by a copy, the photo is queued for the scripted
\* export and the loop goes on.
C11_AnyCopyErrorCaught ==
    /\ pc # "aborted_copy"
    /\ \A n \in 1..Len(plan) : NodeFinished(n) =>
            \A p \in PlanPhotos(n) : (p.uuid \in copy_attempts /\ ~DirectlyCopied(p)) =>
                \E c \in 1..Len(script_calls) :
                    /\ script_calls[c].node = n
                    /\ p.uuid \in Range(script_calls[c].uuid_list)

\* one of the three setup errors is present when the exporter is constructed
SetupError ==
    \/ StrayFile \in temp_directory
    \/ originals_subdir_name = ""
    \/ update_exif /\ exif_tool = None

NothingWritten ==
    /\ out_files = {}
    /\ dirs = {}
    /\ script_calls = <<>>
    /\ copy_attempts = {}

\* C12: with a non-empty staging directory, an empty originals subdirectory
\* name, or a metadata update requested without the metadata tool, the
\* constructor ends the run with the fatal error, and nothing has been created
\* under the output root nor exported by script.
C12_SetupErrorsFatal ==
    (pc # "new" /\ SetupError) => (pc = "fatal" /\ NothingWritten)

\* the originals name is empty and the tool is missing, without a metadata
\* update being requested: the name is checked before the tool is touched
C12_Witness ==
    /\ pc = "fatal"
    /\ originals_subdir_name = ""
    /\ exif_tool = None
    /\ ~update_exif
    /\ temp_directory = {}

\* the run is over: export_photos returned, or an exception left the program
RunEnded == pc \in {"done", "fatal", "crashed", "aborted_copy"}

\* C13: the metadata helper process is started at most once in a run (only
\* from stopped to running, and never again afterwards), and whenever the run
\* has ended, normally or with an error, the helper is no longer running.
C13_HelperReleased ==
    /\ [](RunEnded => ~exif_running)
    /\ [][exif_running' # exif_running => (pc = "new" /\ exif_running')]_vars

\* ---------------------------------------------------------------------------
\* Further properties of fetch_albums
\* ---------------------------------------------------------------------------

\* C14: once the root query has been evaluated, a number of non-trashed rows
\* with the root marker other than one (none, or two and more) has ended
\* fetch_albums with the fatal error, and a tree is built and returned only
\* from the id of the single marked row.
C14_ExactlyOneRoot ==
    /\ (fpc # "start" /\ Len(root_rows) # 1) => fpc = "fatal"
    /\ fpc \in {"parse", "returned"} =>
            (Len(root_rows) = 1 /\ root_id = root_rows[1])

\* the names of the ids of a photo row's keyword column that have a row in
\* ZKEYWORD, in the order of the column
ResolvedKeywords(row) ==
    LET ids == IF row.KEYWORDS.t = "none" THEN <<>> ELSE row.KEYWORDS.ids
        known == SelectSeq(ids,
                    LAMBDA id : \E k \in 1..Len(keywords_temp) : keywords_temp[k][1] = id)
        name(id) == keywords_temp[CHOOSE k \in 1..Len(keywords_temp) :
                                      keywords_temp[k][1] = id][2]
    IN  [k \in 1..Len(known) |-> name(known[k])]

\* C15: every photo record of the returned forest, those of the albums under
\* 'Shared' included, has as keywords the names of the ids of its row that
\* are in the keyword map, in the order of the id list; ids that are not in
\* the map contribute nothing.
C15_KeywordsResolved ==
    fpc = "returned" =>
        \A nd \in NodesUnder(result) :
            \A k \in 1..Len(nd.photos) :
                nd.photos[k].keywords = ResolvedKeywords(photo_temp[nd.photos[k].id])

\* ---------------------------------------------------------------------------
\* Properties of _create_photo_record
\* ---------------------------------------------------------------------------
InClosedRange(x, low, high) ==
    x.t = "num" /\ low * CoordScale <= x.v /\ x.v <= high * CoordScale

\* C16: the record of a row keeps the row's latitude and longitude exactly
\* when both are numbers with -90 <= latitude <= 90 and -180 <= longitude <= 80,
\* the four limits included, and has null for both otherwise; it never has
\* one of the two null and the other not.
C16_GpsKeptIffValid ==
    fpc = "record_made" =>
        LET row == photo_temp[1]
            rec == result[1]
        IN  /\ IF InClosedRange(row.ZLATITUDE, -90, 90)
                    /\ InClosedRange(row.ZLONGITUDE, -180, 80)
               THEN rec.latitude = row.ZLATITUDE /\ rec.longitude = row.ZLONGITUDE
               ELSE rec.latitude = NoneVal /\ rec.longitude = NoneVal
            /\ (rec.latitude = NoneVal) <=> (rec.longitude = NoneVal)
            /\ (row.ZLATITUDE \in {Deg(90), Deg(-90)}
                    /\ row.ZLONGITUDE \in {Deg(80), Deg(-180)})
                   => (rec.latitude.t = "num" /\ rec.longitude.t = "num")
            /\ row.ZLONGITUDE = Num(80 * CoordScale + 1) => rec.longitude = NoneVal

\* latitude 90 with longitude 80 has been kept
C16_Witness ==
    /\ fpc = "record_made"
    /\ photo_temp[1].ZLATITUDE = Deg(90) /\ photo_temp[1].ZLONGITUDE = Deg(80)
    /\ result[1].latitude = Deg(90) /\ result[1].longitude = Deg(80)

\* ---------------------------------------------------------------------------
\* Properties of the tree assembly
\* ---------------------------------------------------------------------------
RECURSIVE IdsUnder(_)
\* the ids of the nodes of a sibling list and of their descendants, one entry
\* per occurrence
IdsUnder(items) ==
    IF items = <<>> THEN <<>>
    ELSE <<Head(items).id>> \o IdsUnder(Head(items).children) \o IdsUnder(Tail(items))

\* the forest _parse_tree gave: the returned one without the added 'Shared'
ParsedTree == SubSeq(result, 1, Len(result) - 1)

\* C17: for every set of album rows, those whose parent references form a
\* cycle through the root id included, the tree assembly ends by returning a
\* forest, never by an exception; in that forest no node is its own ancestor
\* and no album row appears more than once.
C17_AssemblyTerminates ==
    /\ fpc # "raised_recursion"
    /\ fpc = "returned" =>
            /\ \A nd \in NodesUnder(ParsedTree) :
                    \A d \in NodesUnder(nd.children) : d.id # nd.id
            /\ \A a, b \in 1..Len(IdsUnder(ParsedTree)) :
                    (IdsUnder(ParsedTree)[a] = IdsUnder(ParsedTree)[b]) => (a = b)

\* ---------------------------------------------------------------------------
\* Construction without the metadata tool
\* ---------------------------------------------------------------------------
\* the constructor has returned an exporter
Constructed == pc \notin {"new", "fatal", "crashed"} \/ (pc = "crashed" /\ node # 0)

\* C18: with an empty staging directory and a non-empty originals
\* subdirectory name, constructing the exporter without a request for
\* metadata updates succeeds, with the metadata tool and without it; the
\* missing tool is an error only when metadata updates were requested.
C18_ToolOptional ==
    (pc # "new" /\ ~update_exif /\ ~SetupError) => Constructed

====
